---------------------------- MODULE Spec2Model ----------------------------
(***************************************************************************)
(* Translation request coalescing and caching engine of translatorplus.py. *)
(*                                                                         *)
(* Strings are sequences of code points; a code point is written as a      *)
(* short token ("a", " ", "E1" for an emoji of U+1F300..U+1F9FF, "cy" for  *)
(* a Cyrillic letter, "cj" for a CJK ideograph).                           *)
(*                                                                         *)
(* Every requestTranslation call (TranslateHook.replace_hooked_method) and *)
(* the worker task it submits (TranslateHook._process_translation) runs in *)
(* a slot; the steps of a slot are the points where another thread can be  *)
(* scheduled between two accesses to the shared module globals.            *)
(*                                                                         *)
(* The pure functions (normalize_language_code, preserve_entities, the     *)
(* provider strategies) are operators; SpecPure calls each of them once on *)
(* inputs drawn from bounded sets.                                         *)
(***************************************************************************)
EXTENDS Integers, Sequences, FiniteSets, TLC

\* ------------------------------------------------------------- bounds
\* concurrent requestTranslation calls / worker tasks
MaxSlots == 2
\* message ids
MaxMsg == 2
\* seconds the clock may advance past process start
MaxElapsed == 60

\* ------------------------------------------------- program constants
_cache_save_interval == 60
OnlineTtl == 10
KeyPrefixLen == 50
MinTextLen == 3
max_workers == 4
DefaultProvider == 2

\* time.time() at process start: seconds since the epoch, far more than
\* any interval the code compares against
StartTime == 1000

Slots == 1..MaxSlots
Msgs == 1..MaxMsg
TickSteps == {60}

\* ------------------------------------------------------------ strings
Whitespace == {" "}
EmojiRange == {"E1", "E2"}
CjkRange == {"cj"}
CyrillicRange == {"cy"}

UpperCase == <<"A","B","C","D","E","F","G","H","I","J","K","L","M",
               "N","O","P","Q","R","S","T","U","V","W","X","Y","Z">>
LowerCase == <<"a","b","c","d","e","f","g","h","i","j","k","l","m",
               "n","o","p","q","r","s","t","u","v","w","x","y","z">>

\* str.lower() on one code point
LowerChar(c) ==
    IF \E i \in 1..26 : UpperCase[i] = c
    THEN LowerCase[CHOOSE i \in 1..26 : UpperCase[i] = c]
    ELSE c

\* str.lower()
Lower(s) == [i \in 1..Len(s) |-> LowerChar(s[i])]

\* s[:n]
Take(s, n) == IF Len(s) <= n THEN s ELSE SubSeq(s, 1, n)

\* s.split("_")[0]
RECURSIVE UnderscorePos(_, _)
UnderscorePos(s, i) ==
    IF i > Len(s) THEN 0
    ELSE IF s[i] = "_" THEN i
    ELSE UnderscorePos(s, i + 1)

SplitFirst(s) ==
    LET p == UnderscorePos(s, 1)
    IN  IF p = 0 THEN s ELSE SubSeq(s, 1, p - 1)

\* s[i:].startswith(p)
StartsWith(s, i, p) ==
    /\ i + Len(p) - 1 <= Len(s)
    /\ \A j \in 1..Len(p) : s[i + j - 1] = p[j]

\* p in s
IsSubstring(p, s) == \E i \in 1..(Len(s) + 1) : StartsWith(s, i, p)

\* --------------------------------------------------- pure functions
\* the value None where a str is expected
NoText == <<"<None>">>

\* normalize_language_code without the alias of "nb"
normalize_language_code_NoAlias(lang_code) ==
    IF lang_code = NoText \/ lang_code = <<>> THEN <<"e", "n">>
    ELSE Lower(SplitFirst(lang_code))

\* Lines 245-258; "not lang_code" is true of None and of the empty string
normalize_language_code(lang_code) ==
    IF lang_code = NoText \/ lang_code = <<>> THEN <<"e", "n">>
    ELSE LET base_lang == Lower(SplitFirst(lang_code))
         IN  IF base_lang = <<"n", "b">> THEN <<"n", "o">> ELSE base_lang

\* is_already_translated without the length check of line 225
is_already_translated_NoLength(original_text, target_lang_code) ==
    IF target_lang_code \in {<<"z","h">>, <<"j","a">>, <<"k","o">>}
    THEN \E i \in 1..Len(original_text) : original_text[i] \in CjkRange
    ELSE IF target_lang_code \in {<<"r","u">>, <<"u","k">>, <<"b","g">>}
    THEN \E i \in 1..Len(original_text) : original_text[i] \in CyrillicRange
    ELSE FALSE

\* Lines 223-243
is_already_translated(original_text, target_lang_code) ==
    IF Len(original_text) < MinTextLen THEN TRUE
    ELSE IF target_lang_code \in {<<"z","h">>, <<"j","a">>, <<"k","o">>}
         THEN \E i \in 1..Len(original_text) : original_text[i] \in CjkRange
    ELSE IF target_lang_code \in {<<"r","u">>, <<"u","k">>, <<"b","g">>}
         THEN \E i \in 1..Len(original_text) : original_text[i] \in CyrillicRange
    ELSE FALSE

get_cache_key(text, target_lang) ==
    Take(text, KeyPrefixLen) \o <<"_">> \o target_lang

\* ----------------------------------------------------- preserve_entities
\* Index of the first code point of the [^\s]+ part when the pattern
\* https?://[^\s]+ matches at position i of s, 0 when it does not match.
UrlBodyAt(s, i) ==
    IF /\ StartsWith(s, i, <<"h","t","t","p","s",":","/","/">>)
       /\ i + 8 <= Len(s)
       /\ s[i + 8] \notin Whitespace
    THEN i + 8
    ELSE IF /\ StartsWith(s, i, <<"h","t","t","p",":","/","/">>)
            /\ i + 7 <= Len(s)
            /\ s[i + 7] \notin Whitespace
    THEN i + 7
    ELSE 0

\* Last index of the maximal run s[i..] of code points outside (inside = TRUE:
\* inside) the set cls; i - 1 when s[i] does not belong to the run.
RECURSIVE RunEnd(_, _, _, _)
RunEnd(s, i, cls, inside) ==
    IF i > Len(s) THEN i - 1
    ELSE IF (s[i] \in cls) = inside THEN RunEnd(s, i + 1, cls, inside)
    ELSE i - 1

\* re.findall(r'(https?://[^\s]+)', s): the matches, left to right
RECURSIVE FindUrls(_, _)
FindUrls(s, i) ==
    IF i > Len(s) THEN <<>>
    ELSE LET b == UrlBodyAt(s, i)
         IN  IF b = 0 THEN FindUrls(s, i + 1)
             ELSE LET e == RunEnd(s, b, Whitespace, FALSE)
                  IN  <<SubSeq(s, i, e)>> \o FindUrls(s, e + 1)

\* set(re.findall(r'[\U0001F300-\U0001F9FF]+', s)): the maximal emoji runs
RECURSIVE FindEmojiRuns(_, _)
FindEmojiRuns(s, i) ==
    IF i > Len(s) THEN {}
    ELSE IF s[i] \in EmojiRange
         THEN LET e == RunEnd(s, i, EmojiRange, TRUE)
              IN  {SubSeq(s, i, e)} \cup FindEmojiRuns(s, e + 1)
    ELSE FindEmojiRuns(s, i + 1)

\* for url in original_urls: if url not in translated_text: translated_text += f" {url}"
RECURSIVE AppendMissingUrls(_, _, _)
AppendMissingUrls(urls, k, translated_text) ==
    IF k > Len(urls) THEN translated_text
    ELSE IF IsSubstring(urls[k], translated_text)
         THEN AppendMissingUrls(urls, k + 1, translated_text)
    ELSE AppendMissingUrls(urls, k + 1, translated_text \o <<" ">> \o urls[k])

RestoreUrls(original_text, translated_text) ==
    LET original_urls == FindUrls(original_text, 1)
        translated_urls == FindUrls(translated_text, 1)
    IN  IF original_urls # <<>> /\ translated_urls = <<>>
        THEN AppendMissingUrls(original_urls, 1, translated_text)
        ELSE translated_text

\* "".join(missing_emojis) for every order in which the set can be iterated
\* (the iteration order of a set of str depends on the process' hash seed)
RECURSIVE JoinOrders(_)
JoinOrders(runs) ==
    IF runs = {} THEN {<<>>}
    ELSE UNION {{r \o rest : rest \in JoinOrders(runs \ {r})} : r \in runs}

\* preserve_entities that restores the URLs only
preserve_entities_UrlsOnly(original_text, translated_text) ==
    {RestoreUrls(original_text, translated_text)}

\* The texts preserve_entities(original_text, translated_text) can return.
preserve_entities(original_text, translated_text) ==
    LET with_urls == RestoreUrls(original_text, translated_text)
        original_emojis == FindEmojiRuns(original_text, 1)
        translated_emojis == FindEmojiRuns(with_urls, 1)
        missing_emojis == original_emojis \ translated_emojis
    IN  IF missing_emojis # {}
        THEN {with_urls \o tail : tail \in JoinOrders(missing_emojis)}
        ELSE {with_urls}

\* --------------------------------------------------------------- inputs
\* message texts handed to the hook (none of them blank)
TShort == <<"h", "i">>
TPlain == <<"a", "b", "c">>
TEmoji == <<"E1", "o", "k">>
Texts == {TShort, TPlain, TEmoji}

\* what _get_telegram_target_language() can return
RawLangs == {<<"n","b">>, <<"n","o","_","N","O">>}

\* what a provider can return as the translated text
ProviderResults == {<<"x", "E2">>}

\* what update_visible_messages() is called with
VisibleSets == {{}, Msgs}

\* --------------------------------------------------------------- state
VARIABLES
    now,                    \* time.time()
    _visible_message_ids,   \* the ids update_visible_messages() stored last
    in_progress_messages,   \* message keys being processed
    _request_cache,         \* cache_key -> "PENDING"
    heap,                   \* the dict objects: object id -> mapping
    _translation_cache,     \* object id the module global is bound to
    file,                   \* TRANSLATIONS_CACHE_FILE
    _cache_dirty,
    _cache_last_save,
    _offline_state,
    _last_offline_check,
    task,                   \* per slot: the call / worker task and its locals
    loadLog,                \* history of load_cache(): slow paths taken, file
                            \* opened by a call that was not the first
    lastProbe,              \* history: the probe begun at _last_offline_check
    lastWrite,              \* history: time the last write of the file began
    saveQuiet,              \* history: time save_cache() returned last, 0 once
                            \* replace_hooked_method has been called since
    fn_call,                \* the call of a pure function under examination
    fn_result               \* what that call returned

regVars == <<in_progress_messages, _request_cache>>
cacheVars == <<heap, _translation_cache, file, _cache_dirty, _cache_last_save>>
netVars == <<_offline_state, _last_offline_check, lastProbe>>
histVars == <<loadLog, lastWrite, saveQuiet>>
pureVars == <<fn_call, fn_result>>

vars == <<now, _visible_message_ids, regVars, cacheVars, netVars, task, histVars,
          pureVars>>

\* dict objects a process can hold at once: one per task and the global
ObjIds == 1..(MaxSlots + 1)
NoObj == 0
NoMsg == 0

\* no pure function is under examination
NoCall == [fn |-> "none"]
NotCalled == [done |-> FALSE]

EmptyDict == <<>>
Put(d, k, v) == [x \in (DOMAIN d) \cup {k} |-> IF x = k THEN v ELSE d[x]]
Pop(d, k) == [x \in (DOMAIN d) \ {k} |-> d[x]]

Missing == [kind |-> "missing", data |-> EmptyDict]
Corrupt == [kind |-> "corrupt", data |-> EmptyDict]
Json(d) == [kind |-> "json", data |-> d]

\* a snapshot left by an earlier process
OldSnapshot == Put(EmptyDict, get_cache_key(TEmoji, <<"n","o">>), <<"x", "E2">>)
InitialFiles == {Missing, Corrupt, Json(EmptyDict), Json(OldSnapshot)}

\* A slot at rest is "idle"; outcome, and for some outcomes the request, of the
\* task that ended last stay readable in it.
IdleTask ==
    [pc |-> "idle", message_key |-> NoMsg, original_text |-> NoText,
     target_lang_code |-> NoText, cache_key |-> NoText, cache_data |-> NoObj,
     translated_text |-> NoText,
     provider_calls |-> 0, cache_writes |-> 0, stored |-> <<>>,
     outcome |-> "none"]

\* the pcs of replace_hooked_method and of _process_translation
CallerPcs == {"c_check", "c_add", "c_lang"}
WorkerPcs == {"w_queued", "w_online", "w_stamp", "w_probe", "w_call", "w_put",
              "w_save", "w_write", "w_finally", "w_pop"}
Running(s) == task[s].pc \in WorkerPcs \ {"w_queued"}

Init ==
    /\ now = StartTime
    /\ _visible_message_ids = {}
    /\ in_progress_messages = {}
    /\ _request_cache = EmptyDict
    /\ heap = [o \in ObjIds |-> EmptyDict]
    /\ _translation_cache = 1
    /\ file \in InitialFiles
    /\ _cache_dirty = FALSE
    /\ _cache_last_save = 0
    /\ _offline_state = FALSE
    /\ _last_offline_check = 0
    /\ task = [s \in Slots |-> IdleTask]
    /\ loadLog = [slow |-> 0, reread |-> FALSE]
    /\ lastProbe = "none"
    /\ lastWrite = 0
    /\ saveQuiet = 0
    /\ fn_call = NoCall
    /\ fn_result = NotCalled

\* ---------------------------------------------------------- environment
\* A call of is_online() or save_cache() that has read the clock, and a
\* network request (timeouts of at most 1.2 s), end before the clock advances
\* by a step.
Blocking == {"w_stamp", "w_probe", "w_call", "w_write"}

\* the clock advances
Tick ==
    /\ \A s \in Slots : task[s].pc \notin Blocking
    /\ \E d \in TickSteps :
         /\ now + d <= StartTime + MaxElapsed
         /\ now' = now + d
    /\ UNCHANGED <<_visible_message_ids, regVars, cacheVars, netVars, task, histVars, pureVars>>

\* Lines 51-55
update_visible_messages ==
    /\ \E visible_ids \in VisibleSets :
         _visible_message_ids' = visible_ids
    /\ UNCHANGED <<now, regVars, cacheVars, netVars, task, histVars, pureVars>>

\* Lines 57-60
is_message_visible(message_id) == message_id \in _visible_message_ids

\* ------------------------------------------- replace_hooked_method
\* what the host passes in param.args[0]: nothing usable (lines 482-487), a
\* message the later guards skip (lines 496-512: translated natively, blank,
\* outgoing), a message to translate, or an object on which the guards raise
\* (handled at lines 552-553)
Params == {"no_message", "skipped", "message", "raises"}

\* Lines 552-553 and 626-627: the handlers call self._handle_error(e, ...).
\* TranslateHook defines no _handle_error: the call returns when the host's
\* MethodReplacement provides the method and raises AttributeError otherwise.
HandleErrorOutcomes == {"returns", "raises"}

\* CallEnter without the visibility gate of lines 489-493
CallEnter_NoGate(s) ==
    /\ task[s].pc = "idle"
    /\ LET results ==
             {IF param = "raises"
              THEN IF h = "returns" THEN IdleTask
                   ELSE [IdleTask EXCEPT !.outcome = "escaped"]
              ELSE IF param # "message" THEN IdleTask
              ELSE [IdleTask EXCEPT !.pc = "c_check", !.message_key = m,
                                    !.original_text = text]
              : param \in Params, m \in Msgs, text \in Texts,
                h \in HandleErrorOutcomes}
       IN  \E t \in results : task' = [task EXCEPT ![s] = t]
    /\ saveQuiet' = 0
    /\ UNCHANGED <<now, _visible_message_ids, regVars, cacheVars, netVars,
                   loadLog, lastWrite, pureVars>>

\* Lines 480-514: the guards before the in-progress check; the visibility
\* gate of lines 489-493 comes after the guards on the message object itself.
\* An exception raised by a guard is handled at lines 552-553.
CallEnter(s) ==
    /\ task[s].pc = "idle"
    /\ LET results ==
             {IF param = "raises"
              THEN IF h = "returns" THEN IdleTask
                   ELSE [IdleTask EXCEPT !.outcome = "escaped"]
              ELSE IF param = "no_message" THEN IdleTask
              ELSE IF ~is_message_visible(m)
              THEN [IdleTask EXCEPT !.outcome = "not_visible", !.message_key = m]
              ELSE IF param = "skipped" THEN IdleTask
              ELSE [IdleTask EXCEPT !.pc = "c_check", !.message_key = m,
                                    !.original_text = text]
              : param \in Params, m \in Msgs, text \in Texts,
                h \in HandleErrorOutcomes}
       IN  \E t \in results : task' = [task EXCEPT ![s] = t]
    /\ saveQuiet' = 0
    /\ UNCHANGED <<now, _visible_message_ids, regVars, cacheVars, netVars,
                   loadLog, lastWrite, pureVars>>

\* CheckInProgress that also probes the connection on the calling thread
CheckInProgress_Probes(s) ==
    /\ task[s].pc = "c_check"
    /\ IF task[s].message_key \in in_progress_messages
       THEN task' = [task EXCEPT ![s] = IdleTask]
       ELSE task' = [task EXCEPT ![s].pc = "c_add"]
    /\ _last_offline_check' = now
    /\ \E reachable \in BOOLEAN :
         /\ _offline_state' = ~reachable
         /\ lastProbe' = IF reachable THEN "online" ELSE "offline"
    /\ UNCHANGED <<now, _visible_message_ids, regVars, cacheVars, histVars, pureVars>>

\* Lines 516-517: if message_key in in_progress_messages: return None
CheckInProgress(s) ==
    /\ task[s].pc = "c_check"
    /\ IF task[s].message_key \in in_progress_messages
       THEN task' = [task EXCEPT ![s] = IdleTask]
       ELSE task' = [task EXCEPT ![s].pc = "c_add"]
    /\ UNCHANGED <<now, _visible_message_ids, regVars, cacheVars, netVars, histVars, pureVars>>

\* Line 519: in_progress_messages.add(message_key)
AddInProgress(s) ==
    /\ task[s].pc = "c_add"
    /\ in_progress_messages' = in_progress_messages \cup {task[s].message_key}
    /\ task' = [task EXCEPT ![s].pc = "c_lang"]
    /\ UNCHANGED <<now, _visible_message_ids, _request_cache, cacheVars, netVars,
                   histVars, pureVars>>

\* Dedup that submits the task although the key is in flight
Dedup_NoRegistry(s) ==
    /\ task[s].pc = "c_lang"
    /\ \E raw \in RawLangs :
         LET target_lang_code == normalize_language_code(raw)
             cache_key == get_cache_key(task[s].original_text, target_lang_code)
         IN  IF is_already_translated(task[s].original_text, target_lang_code)
             THEN /\ in_progress_messages' =
                        in_progress_messages \ {task[s].message_key}
                  /\ task' = [task EXCEPT ![s] =
                        [IdleTask EXCEPT !.outcome = "already"]]
                  /\ UNCHANGED _request_cache
             ELSE /\ _request_cache' = Put(_request_cache, cache_key, "PENDING")
                  /\ task' = [task EXCEPT
                        ![s].pc = "w_queued",
                        ![s].target_lang_code = target_lang_code,
                        ![s].cache_key = cache_key]
                  /\ UNCHANGED in_progress_messages
    /\ UNCHANGED <<now, _visible_message_ids, cacheVars, netVars, histVars, pureVars>>

\* Dedup that leaves the message id of a dropped request in the in-progress set
Dedup_KeepInProgress(s) ==
    /\ task[s].pc = "c_lang"
    /\ \E raw \in RawLangs :
         LET target_lang_code == normalize_language_code(raw)
             cache_key == get_cache_key(task[s].original_text, target_lang_code)
         IN  IF is_already_translated(task[s].original_text, target_lang_code)
             THEN /\ in_progress_messages' =
                        in_progress_messages \ {task[s].message_key}
                  /\ task' = [task EXCEPT ![s] =
                        [IdleTask EXCEPT !.outcome = "already"]]
                  /\ UNCHANGED _request_cache
             ELSE IF cache_key \in DOMAIN _request_cache
             THEN /\ task' = [task EXCEPT ![s] =
                        [IdleTask EXCEPT !.outcome = "in_flight",
                                         !.message_key = task[s].message_key,
                                         !.cache_key = cache_key]]
                  /\ UNCHANGED <<_request_cache, in_progress_messages>>
             ELSE /\ _request_cache' = Put(_request_cache, cache_key, "PENDING")
                  /\ task' = [task EXCEPT
                        ![s].pc = "w_queued",
                        ![s].target_lang_code = target_lang_code,
                        ![s].cache_key = cache_key]
                  /\ UNCHANGED in_progress_messages
    /\ UNCHANGED <<now, _visible_message_ids, cacheVars, netVars, histVars, pureVars>>

\* Lines 521-550: normalise the language; the already-translated heuristic;
\* the cache key; then, under _request_lock, drop the request when the key is
\* in flight, otherwise mark it PENDING and submit the worker task.
Dedup(s) ==
    /\ task[s].pc = "c_lang"
    /\ \E raw \in RawLangs :
         LET target_lang_code == normalize_language_code(raw)
             cache_key == get_cache_key(task[s].original_text, target_lang_code)
         IN  IF is_already_translated(task[s].original_text, target_lang_code)
             THEN /\ in_progress_messages' =
                        in_progress_messages \ {task[s].message_key}
                  /\ task' = [task EXCEPT ![s] =
                        [IdleTask EXCEPT !.outcome = "already"]]
                  /\ UNCHANGED _request_cache
             ELSE IF cache_key \in DOMAIN _request_cache
             THEN /\ in_progress_messages' =
                        in_progress_messages \ {task[s].message_key}
                  /\ task' = [task EXCEPT ![s] =
                        [IdleTask EXCEPT !.outcome = "in_flight",
                                         !.message_key = task[s].message_key,
                                         !.cache_key = cache_key]]
                  /\ UNCHANGED _request_cache
             ELSE /\ _request_cache' = Put(_request_cache, cache_key, "PENDING")
                  /\ task' = [task EXCEPT
                        ![s].pc = "w_queued",
                        ![s].target_lang_code = target_lang_code,
                        ![s].cache_key = cache_key]
                  /\ UNCHANGED in_progress_messages
    /\ UNCHANGED <<now, _visible_message_ids, cacheVars, netVars, histVars, pureVars>>

\* Lines 538-553: the key is marked PENDING and _executor.submit raises (the
\* pool cannot start a thread or was shut down); the handler of lines 552-553
\* runs and the call ends; nothing discards message_key or pops cache_key.
SubmitRejected(s) ==
    /\ task[s].pc = "c_lang"
    /\ \E raw \in RawLangs, h \in HandleErrorOutcomes :
         LET target_lang_code == normalize_language_code(raw)
             cache_key == get_cache_key(task[s].original_text, target_lang_code)
         IN  /\ ~is_already_translated(task[s].original_text, target_lang_code)
             /\ cache_key \notin DOMAIN _request_cache
             /\ _request_cache' = Put(_request_cache, cache_key, "PENDING")
             /\ task' = [task EXCEPT ![s] =
                   [IdleTask EXCEPT !.outcome = IF h = "returns" THEN "rejected"
                                                ELSE "escaped"]]
    /\ UNCHANGED <<now, _visible_message_ids, in_progress_messages, cacheVars,
                   netVars, histVars, pureVars>>

\* ------------------------------------------------------------ load_cache
\* The dict objects the tasks hold in their local cache_data.
Live(t) == {t[s].cache_data : s \in Slots} \ {NoObj}

\* id of a newly created dict object
FreshObj(t) == CHOOSE o \in ObjIds \ Live(t) : \A p \in ObjIds \ Live(t) : o <= p

\* objects nothing refers to any more are collected
Collect(h, glob, t) ==
    [o \in ObjIds |-> IF o = glob \/ o \in Live(t) THEN h[o] ELSE EmptyDict]

\* load_cache(): the object returned, the heap, the binding of the global and
\* the history after the call
load_cache ==
    IF heap[_translation_cache] # EmptyDict
    THEN [obj |-> _translation_cache, heap |-> heap, glob |-> _translation_cache,
          log |-> loadLog]
    ELSE LET o == FreshObj(task)
             opened == file.kind # "missing"
             d == IF file.kind = "json" THEN file.data ELSE EmptyDict
         IN  [obj |-> o, heap |-> [heap EXCEPT ![o] = d], glob |-> o,
              log |-> [slow |-> IF loadLog.slow < 2 THEN loadLog.slow + 1 ELSE 2,
                       reread |-> loadLog.reread \/ (opened /\ loadLog.slow > 0)]]

\* Lines 127-133: the settings screen counts the entries
get_cache_entry_count ==
    /\ LET r == load_cache
       IN  /\ heap' = Collect(r.heap, r.glob, task)
           /\ _translation_cache' = r.glob
           /\ loadLog' = r.log
    /\ UNCHANGED <<now, _visible_message_ids, regVars, file, _cache_dirty,
                   _cache_last_save, netVars, task, lastWrite, saveQuiet, pureVars>>

\* how the os.remove() of line 212 can end
RemoveOutcomes == {"removed", "remove_failed"}

\* Lines 200-221, the clear-cache action of the settings screen: the size and
\* the entry count are read (load_cache), the native translations are
\* cleared, and the cache file is removed when it exists. The module global
\* _translation_cache is not assigned.
_clear_translation_cache_with_native ==
    /\ LET r == load_cache
       IN  /\ heap' = Collect(r.heap, r.glob, task)
           /\ _translation_cache' = r.glob
           /\ loadLog' = r.log
    /\ \E outcome \in RemoveOutcomes :
         file' = IF file.kind # "missing" /\ outcome = "removed"
                 THEN Missing ELSE file
    /\ UNCHANGED <<now, _visible_message_ids, regVars, _cache_dirty,
                   _cache_last_save, netVars, task, lastWrite, saveQuiet, pureVars>>

\* --------------------------------------------------- _process_translation
\* The task leaves the try block for the finally block of lines 629-633; its
\* locals cache_data and translated_text are not read again.
Finish(t, outcome) ==
    [t EXCEPT !.pc = "w_finally", !.outcome = outcome, !.cache_data = NoObj,
              !.translated_text = NoText]

\* StartTask without the visibility re-check of lines 562-566
StartTask_NoRecheck(s) ==
    /\ task[s].pc = "w_queued"
    /\ Cardinality({t \in Slots : Running(t)}) < max_workers
    /\ LET r == load_cache
           d == r.heap[r.obj]
           k == task[s].cache_key
       IN  /\ _translation_cache' = r.glob
           /\ loadLog' = r.log
           /\ IF k \in DOMAIN d
              THEN /\ \E cached_translation \in
                           preserve_entities(task[s].original_text, d[k]) :
                        task' = [task EXCEPT ![s] =
                            [Finish(task[s], "hit") EXCEPT
                                !.stored = <<cached_translation>>]]
                   /\ in_progress_messages' =
                         in_progress_messages \ {task[s].message_key}
              ELSE /\ task' = [task EXCEPT ![s].pc = "w_online",
                                           ![s].cache_data = r.obj]
                   /\ UNCHANGED in_progress_messages
           /\ heap' = Collect(r.heap, r.glob, task')
    /\ UNCHANGED <<now, _visible_message_ids, _request_cache, file, _cache_dirty,
                   _cache_last_save, netVars, lastWrite, saveQuiet, pureVars>>

\* A pool thread takes the task. Lines 562-583: the visibility re-check; load
\* the cache and look the key up; on a hit preserve the entities of the cached
\* text and store it. The discard of lines 565 and 582 is part of the step.
StartTask(s) ==
    /\ task[s].pc = "w_queued"
    /\ Cardinality({t \in Slots : Running(t)}) < max_workers
    /\ IF ~is_message_visible(task[s].message_key)
       THEN /\ task' = [task EXCEPT ![s] = Finish(task[s], "invisible")]
            /\ in_progress_messages' =
                  in_progress_messages \ {task[s].message_key}
            /\ UNCHANGED <<heap, _translation_cache, loadLog>>
       ELSE LET r == load_cache
                d == r.heap[r.obj]
                k == task[s].cache_key
            IN  /\ _translation_cache' = r.glob
                /\ loadLog' = r.log
                /\ IF k \in DOMAIN d
                   THEN /\ \E cached_translation \in
                                preserve_entities(task[s].original_text, d[k]) :
                             task' = [task EXCEPT ![s] =
                                 [Finish(task[s], "hit") EXCEPT
                                     !.stored = <<cached_translation>>]]
                        /\ in_progress_messages' =
                              in_progress_messages \ {task[s].message_key}
                   ELSE /\ task' = [task EXCEPT ![s].pc = "w_online",
                                                ![s].cache_data = r.obj]
                        /\ UNCHANGED in_progress_messages
                /\ heap' = Collect(r.heap, r.glob, task')
    /\ UNCHANGED <<now, _visible_message_ids, _request_cache, file, _cache_dirty,
                   _cache_last_save, netVars, lastWrite, saveQuiet, pureVars>>

\* Lines 755-759 and 592: TRANSLATION_PROVIDERS.get(provider_index, "delirius")
TRANSLATION_PROVIDERS == [i \in {0, 1, 2} |->
    IF i = 0 THEN "google" ELSE IF i = 1 THEN "deepl" ELSE "delirius"]

ProviderName(provider_index) ==
    IF provider_index \in DOMAIN TRANSLATION_PROVIDERS
    THEN TRANSLATION_PROVIDERS[provider_index]
    ELSE TRANSLATION_PROVIDERS[DefaultProvider]

\* the values the setting api_provider can hold; 3 is not a provider
ProviderIndexes == {0, 1, 2, 3}

\* AfterVerdict that calls the provider whatever the verdict
AfterVerdict_IgnoreOffline(t, online) ==
    {[t EXCEPT !.pc = "w_call", !.provider_calls = @ + 1]}

\* Lines 585-602 after is_online() returned verdict: offline, discard and
\* return; online, read the setting and call the strategy of that name
AfterVerdict(t, online) ==
    IF ~online
    THEN {Finish(t, "offline")}
    ELSE {IF ProviderName(provider_index) \in {"google", "deepl", "delirius"}
          THEN [t EXCEPT !.pc = "w_call", !.provider_calls = @ + 1]
          ELSE Finish(t, "no_result")
          : provider_index \in ProviderIndexes}

Discarded(t) ==
    IF t.pc = "w_finally" THEN in_progress_messages \ {t.message_key}
    ELSE in_progress_messages

\* Lines 585 and 99-100, is_online(): inside the TTL the memoized verdict is
\* returned
IsOnlineCheck(s) ==
    /\ task[s].pc = "w_online"
    /\ IF now - _last_offline_check < OnlineTtl
       THEN \E t \in AfterVerdict(task[s], ~_offline_state) :
                 /\ task' = [task EXCEPT ![s] = t]
                 /\ in_progress_messages' = Discarded(t)
       ELSE /\ task' = [task EXCEPT ![s].pc = "w_stamp"]
            /\ UNCHANGED in_progress_messages
    /\ heap' = Collect(heap, _translation_cache, task')
    /\ UNCHANGED <<now, _visible_message_ids, _request_cache, _translation_cache,
                   file, _cache_dirty, _cache_last_save, netVars, histVars, pureVars>>

\* Lines 102-104: the time of the check is recorded and the probe begins
ProbeBegin(s) ==
    /\ task[s].pc = "w_stamp"
    /\ _last_offline_check' = now
    /\ lastProbe' = "pending"
    /\ task' = [task EXCEPT ![s].pc = "w_probe"]
    /\ UNCHANGED <<now, _visible_message_ids, regVars, cacheVars, _offline_state,
                   histVars, pureVars>>

\* Lines 105-111: the GET to 1.1.1.1 returns or fails
ProbeDone(s) ==
    /\ task[s].pc = "w_probe"
    /\ \E reachable \in BOOLEAN :
         /\ _offline_state' = ~reachable
         /\ lastProbe' = IF reachable THEN "online" ELSE "offline"
         /\ \E t \in AfterVerdict(task[s], reachable) :
              /\ task' = [task EXCEPT ![s] = t]
              /\ in_progress_messages' = Discarded(t)
    /\ heap' = Collect(heap, _translation_cache, task')
    /\ UNCHANGED <<now, _visible_message_ids, _request_cache, _translation_cache,
                   file, _cache_dirty, _cache_last_save, histVars,
                   _last_offline_check, pureVars>>

\* how the call of the strategy can end, besides returning a text
NoResult == <<"<no result>">>
Raises == <<"<raises>">>

\* ProviderReturns that calls the strategy once more when it returned nothing
ProviderReturns_Retry(s) ==
    /\ task[s].pc = "w_call"
    /\ \E r \in ProviderResults \cup {NoResult, Raises} :
         IF r = Raises
         THEN /\ \E h \in HandleErrorOutcomes :
                   task' = [task EXCEPT ![s] =
                       Finish(task[s], IF h = "returns" THEN "raised"
                                       ELSE "escaped")]
              /\ UNCHANGED in_progress_messages
         ELSE IF r = NoResult
         THEN IF task[s].provider_calls < 2
              THEN /\ task' = [task EXCEPT ![s].provider_calls = @ + 1]
                   /\ UNCHANGED in_progress_messages
              ELSE /\ task' = [task EXCEPT ![s] = Finish(task[s], "no_result")]
                   /\ in_progress_messages' =
                         in_progress_messages \ {task[s].message_key}
         ELSE /\ task' = [task EXCEPT ![s].pc = "w_put",
                                      ![s].translated_text = r]
              /\ UNCHANGED in_progress_messages
    /\ heap' = Collect(heap, _translation_cache, task')
    /\ UNCHANGED <<now, _visible_message_ids, _request_cache, _translation_cache,
                   file, _cache_dirty, _cache_last_save, netVars, histVars, pureVars>>

\* Lines 597-610: the strategy returns a text or nothing, or an exception
\* reaches the handler of the task (lines 626-627)
ProviderReturns(s) ==
    /\ task[s].pc = "w_call"
    /\ \E r \in ProviderResults \cup {NoResult, Raises} :
         IF r = Raises
         THEN /\ \E h \in HandleErrorOutcomes :
                   task' = [task EXCEPT ![s] =
                       Finish(task[s], IF h = "returns" THEN "raised"
                                       ELSE "escaped")]
              /\ UNCHANGED in_progress_messages
         ELSE IF r = NoResult
         THEN /\ task' = [task EXCEPT ![s] = Finish(task[s], "no_result")]
              /\ in_progress_messages' =
                    in_progress_messages \ {task[s].message_key}
         ELSE /\ task' = [task EXCEPT ![s].pc = "w_put",
                                      ![s].translated_text = r]
              /\ UNCHANGED in_progress_messages
    /\ heap' = Collect(heap, _translation_cache, task')
    /\ UNCHANGED <<now, _visible_message_ids, _request_cache, _translation_cache,
                   file, _cache_dirty, _cache_last_save, netVars, histVars, pureVars>>

\* PutCache that leaves cache_data as it is
PutCache_NoWrite(s) ==
    /\ task[s].pc = "w_put"
    /\ \E translated_text \in
            preserve_entities(task[s].original_text, task[s].translated_text) :
         task' = [task EXCEPT ![s].pc = "w_save",
                              ![s].translated_text = translated_text]
    /\ UNCHANGED <<now, _visible_message_ids, regVars, cacheVars, netVars,
                   histVars, pureVars>>

\* Lines 612-614: preserve the entities, write the entry into cache_data
PutCache(s) ==
    /\ task[s].pc = "w_put"
    /\ \E translated_text \in
            preserve_entities(task[s].original_text, task[s].translated_text) :
         /\ heap' = [heap EXCEPT ![task[s].cache_data] =
                        Put(@, task[s].cache_key, translated_text)]
         /\ task' = [task EXCEPT ![s].pc = "w_save",
                                 ![s].translated_text = translated_text,
                                 ![s].cache_writes = @ + 1]
    /\ UNCHANGED <<now, _visible_message_ids, regVars, _translation_cache, file,
                   _cache_dirty, _cache_last_save, netVars, histVars, pureVars>>

\* Lines 620-624 after save_cache() returned: hand the text to the native
\* storage
Stored(t) ==
    [Finish(t, "stored") EXCEPT !.stored = Append(@, t.translated_text)]

\* SaveCheck that writes on every call
SaveCheck_NoDebounce(s) ==
    /\ task[s].pc = "w_save"
    /\ _cache_dirty' = TRUE
    /\ task' = [task EXCEPT ![s].pc = "w_write"]
    /\ UNCHANGED <<now, _visible_message_ids, regVars, heap, _translation_cache,
                   file, _cache_last_save, netVars, histVars, pureVars>>

\* Lines 82-86, save_cache(): mark dirty, return inside the debounce interval
SaveCheck(s) ==
    /\ task[s].pc = "w_save"
    /\ _cache_dirty' = TRUE
    /\ IF now - _cache_last_save < _cache_save_interval
       THEN /\ task' = [task EXCEPT ![s] = Stored(task[s])]
            /\ saveQuiet' = now
       ELSE /\ task' = [task EXCEPT ![s].pc = "w_write"]
            /\ UNCHANGED saveQuiet
    /\ heap' = Collect(heap, _translation_cache, task')
    /\ UNCHANGED <<now, _visible_message_ids, regVars, _translation_cache, file,
                   _cache_last_save, netVars, loadLog, lastWrite, pureVars>>

\* how the open() and json.dump() of lines 90-91 can end
WriteOutcomes == {"written", "dump_failed"}

\* Lines 88-94: record the time of the write, then write the file in place
SaveWrite(s) ==
    /\ task[s].pc = "w_write"
    /\ _cache_last_save' = now
    /\ \E outcome \in WriteOutcomes :
         /\ file' = IF outcome = "written" THEN Json(heap[task[s].cache_data])
                    ELSE IF outcome = "dump_failed" THEN Corrupt
                    ELSE file
         /\ _cache_dirty' = IF outcome = "written" THEN FALSE ELSE _cache_dirty
    /\ lastWrite' = now
    /\ saveQuiet' = now
    /\ task' = [task EXCEPT ![s] = Stored(task[s])]
    /\ heap' = Collect(heap, _translation_cache, task')
    /\ UNCHANGED <<now, _visible_message_ids, regVars, _translation_cache, netVars,
                   loadLog, pureVars>>

\* Line 630: finally: in_progress_messages.discard(message_key)
Finally(s) ==
    /\ task[s].pc = "w_finally"
    /\ in_progress_messages' = in_progress_messages \ {task[s].message_key}
    /\ task' = [task EXCEPT ![s].pc = "w_pop"]
    /\ UNCHANGED <<now, _visible_message_ids, _request_cache, cacheVars, netVars,
                   histVars, pureVars>>

\* what stays readable of a task after it ended
Ended(t) ==
    IF t.outcome \in {"raised", "no_result"}
    THEN [IdleTask EXCEPT !.outcome = t.outcome,
                          !.message_key = t.message_key,
                          !.original_text = t.original_text,
                          !.target_lang_code = t.target_lang_code]
    ELSE IF t.outcome = "stored"
    THEN [IdleTask EXCEPT !.outcome = t.outcome,
                          !.original_text = t.original_text,
                          !.target_lang_code = t.target_lang_code]
    ELSE IF t.outcome = "escaped"
    THEN [IdleTask EXCEPT !.outcome = t.outcome]
    ELSE IdleTask

\* the finally block without the pop of lines 631-633
PopKey_NoPop(s) ==
    /\ task[s].pc = "w_pop"
    /\ task' = [task EXCEPT ![s] = Ended(task[s])]
    /\ heap' = Collect(heap, _translation_cache, task')
    /\ UNCHANGED <<now, _visible_message_ids, regVars, _translation_cache, file,
                   _cache_dirty, _cache_last_save, netVars, histVars, pureVars>>

\* Lines 631-633: with _request_lock: _request_cache.pop(cache_key, None)
PopKey(s) ==
    /\ task[s].pc = "w_pop"
    /\ _request_cache' = Pop(_request_cache, task[s].cache_key)
    /\ task' = [task EXCEPT ![s] = Ended(task[s])]
    /\ heap' = Collect(heap, _translation_cache, task')
    /\ UNCHANGED <<now, _visible_message_ids, in_progress_messages,
                   _translation_cache, file, _cache_dirty, _cache_last_save,
                   netVars, histVars, pureVars>>

\* ----------------------------------------------------- specification
\* the steps of a call that passed the guards and of the task it submitted
Serve(s) ==
    \/ CheckInProgress(s)
    \/ AddInProgress(s)
    \/ Dedup(s)
    \/ StartTask(s)
    \/ IsOnlineCheck(s)
    \/ ProbeBegin(s)
    \/ ProbeDone(s)
    \/ ProviderReturns(s)
    \/ PutCache(s)
    \/ SaveCheck(s)
    \/ SaveWrite(s)
    \/ Finally(s)
    \/ PopKey(s)

Step(s) ==
    \/ CallEnter(s)
    \/ Serve(s)
    \/ SubmitRejected(s)

Next ==
    \/ Tick
    \/ update_visible_messages
    \/ get_cache_entry_count
    \/ _clear_translation_cache_with_native
    \/ \E s \in Slots : Step(s)

\* all behaviours
Spec == Init /\ [][Next]_vars

\* The three specifications below restrict the calls the host makes (only
\* CallEnter chooses the slot, message and text of a call) and have a pool
\* that accepts every task: SubmitRejected is a step of Spec and SpecReject.

\* Concurrent calls, none of them for a message with the plain text: the
\* requests that reach the registry share one cache key.
NoPlain == \A s \in Slots : task[s].original_text # TPlain

ConcCall(s) == CallEnter(s) /\ NoPlain'

ConcNext ==
    \/ Tick
    \/ update_visible_messages
    \/ get_cache_entry_count
    \/ _clear_translation_cache_with_native
    \/ \E s \in Slots : ConcCall(s) \/ Serve(s)

SpecConc == Init /\ [][ConcNext]_vars

\* Concurrent calls in which every slot serves one chat message of its own,
\* requested again and again: the tasks of two slots hold different cache
\* keys and run side by side on the pool.
SlotText(s) == IF s = 1 THEN TEmoji ELSE TPlain

OwnMessage ==
    \A s \in Slots :
        /\ task[s].message_key \in {NoMsg, s}
        /\ task[s].original_text \in {NoText, SlotText(s)}

ParCall(s) == CallEnter(s) /\ OwnMessage'

ParNext ==
    \/ Tick
    \/ update_visible_messages
    \/ get_cache_entry_count
    \/ _clear_translation_cache_with_native
    \/ \E s \in Slots : ParCall(s) \/ Serve(s)

SpecPar == Init /\ [][ParNext]_vars

\* requestTranslation is called sequentially: a call is made only when the
\* task of the call before it has ended
Sequential == Cardinality({s \in Slots : task[s].pc # "idle"}) <= 1

SeqCall(s) == CallEnter(s) /\ Sequential'

SeqNext ==
    \/ Tick
    \/ update_visible_messages
    \/ get_cache_entry_count
    \/ _clear_translation_cache_with_native
    \/ \E s \in Slots : SeqCall(s) \/ Serve(s)

SpecSeq == Init /\ [][SeqNext]_vars

\* Sequential calls for messages of one cache key, with a pool that may
\* reject the task of a call
RejectCall(s) == CallEnter(s) /\ Sequential' /\ NoPlain'

RejectNext ==
    \/ Tick
    \/ update_visible_messages
    \/ get_cache_entry_count
    \/ _clear_translation_cache_with_native
    \/ \E s \in Slots : RejectCall(s) \/ Serve(s) \/ SubmitRejected(s)

SpecReject == Init /\ [][RejectNext]_vars

\* ------------------------------------------------------ provider strategies
\* what the one HTTP exchange of a strategy can come to: requests raises
\* (timeout, connection error) or a response with a status and a body
Statuses == {200, 429, 500}
Bodies == {"not_json", "empty_list", "empty_dict", "google_body",
           "delirius_body", "deepl_body"}
HttpOutcomes ==
    {[kind |-> k, status |-> 0, body |-> "none"] :
        k \in {"timeout", "connection_error"}}
    \cup {[kind |-> "response", status |-> st, body |-> bd] :
            st \in Statuses, bd \in Bodies}

\* the text a well-formed body of a provider carries
BodyText == <<"x", "E2">>

\* how the body of a strategy ends: it returned v or an exception was raised,
\* after n outbound requests
Return(v, n) == [ret |-> v, raised |-> FALSE, requests |-> n]
Raise(n) == [ret |-> NoResult, raised |-> TRUE, requests |-> n]

\* the except clause that lets the exception through
Caught_Reraise(r) == r

\* except Exception as e: ...; return None
Caught(r) == IF r.raised THEN Return(NoResult, r.requests) ELSE r

\* response.json() of a body is a list
IsList(bd) == bd \in {"empty_list", "google_body"}

\* Lines 670-695
_translate_with_google(http) ==
    Caught(
        IF http.kind # "response" THEN Raise(1)
        ELSE IF http.status = 429 THEN Return(NoResult, 1)
        ELSE IF http.status # 200 THEN Raise(1)
        ELSE IF http.body = "not_json" THEN Raise(1)
        ELSE IF http.body = "google_body" THEN Return(BodyText, 1)
        ELSE Return(NoResult, 1))

\* Lines 697-719
_translate_with_delirius(http) ==
    Caught(
        IF http.kind # "response" THEN Raise(1)
        ELSE IF http.status = 429 THEN Return(NoResult, 1)
        ELSE IF http.status # 200 THEN Raise(1)
        ELSE IF http.body = "not_json" THEN Raise(1)
        ELSE IF IsList(http.body) THEN Raise(1)
        ELSE IF http.body = "delirius_body" THEN Return(BodyText, 1)
        ELSE Return(NoResult, 1))

\* the values of the setting deepl_api_key
ApiKeys == {<<>>, <<" ">>, <<"k">>}

\* str.strip() of a key is empty
Blank(k) == \A i \in 1..Len(k) : k[i] \in Whitespace

\* Lines 721-753
_translate_with_deepl(api_key, http) ==
    Caught(
        IF Blank(api_key) THEN Return(NoResult, 0)
        ELSE IF http.kind # "response" THEN Raise(1)
        ELSE IF http.status = 429 THEN Return(NoResult, 1)
        ELSE IF http.status # 200 THEN Return(NoResult, 1)
        ELSE IF http.body = "not_json" THEN Raise(1)
        ELSE IF IsList(http.body) THEN Raise(1)
        ELSE IF http.body = "deepl_body" THEN Return(BodyText, 1)
        ELSE Return(NoResult, 1))

\* Lines 597-602: the strategy of the provider name
Translate(provider_name, api_key, http) ==
    IF provider_name = "google" THEN _translate_with_google(http)
    ELSE IF provider_name = "deepl" THEN _translate_with_deepl(api_key, http)
    ELSE _translate_with_delirius(http)

\* ------------------------------------------- calls of the pure functions
U1 == <<"h","t","t","p",":","/","/","a">>
U2 == <<"h","t","t","p","s",":","/","/","b">>

\* original texts: "see http://a E1", two URLs, one emoji, two emoji runs, none
Originals ==
    {<<"s","e","e"," ">> \o U1 \o <<" ","E1">>,
     U1 \o <<" ">> \o U2,
     TEmoji,
     <<"E1","E2"," ","E1">>,
     TPlain}

\* translated texts: everything stripped, one URL kept, emoji kept or changed
Translations ==
    {<<"v">>,
     <<"v"," ">> \o U1,
     <<"v"," ">> \o U2,
     <<"x","E1">>,
     <<"x","E2">>,
     <<"x","E1","E2">>}

\* language codes the host can hand over, None and the empty string
LangCodes ==
    {NoText, <<>>, <<"z","h","_","C","N">>, <<"n","b">>, <<"n","b","_","N","O">>,
     <<"N","B">>, <<"e","n">>, <<"p","t","_","B","R">>, <<"Z","H">>}

PureCalls ==
    {[fn |-> "preserve_entities", original_text |-> o, translated_text |-> t] :
        o \in Originals, t \in Translations}
    \cup {[fn |-> "normalize_language_code", lang_code |-> l] : l \in LangCodes}
    \cup {[fn |-> "translate", provider_name |-> p, api_key |-> k, http |-> h] :
            p \in {"google", "deepl", "delirius"}, k \in ApiKeys,
            h \in HttpOutcomes}

Returned(v) == [done |-> TRUE, again |-> FALSE, value |-> v]

dynVars == <<now, _visible_message_ids, regVars, cacheVars, netVars, task, histVars>>

\* a process at rest and one call to make
PureInit ==
    /\ now = StartTime
    /\ _visible_message_ids = {}
    /\ in_progress_messages = {}
    /\ _request_cache = EmptyDict
    /\ heap = [o \in ObjIds |-> EmptyDict]
    /\ _translation_cache = 1
    /\ file = Missing
    /\ _cache_dirty = FALSE
    /\ _cache_last_save = 0
    /\ _offline_state = FALSE
    /\ _last_offline_check = 0
    /\ task = [s \in Slots |-> IdleTask]
    /\ loadLog = [slow |-> 0, reread |-> FALSE]
    /\ lastProbe = "none"
    /\ lastWrite = 0
    /\ saveQuiet = 0
    /\ fn_call \in PureCalls
    /\ fn_result = NotCalled

PreserveEntitiesCall ==
    /\ fn_call.fn = "preserve_entities"
    /\ ~fn_result.done
    /\ \E r \in preserve_entities(fn_call.original_text, fn_call.translated_text) :
         fn_result' = Returned(r)
    /\ UNCHANGED <<fn_call, dynVars>>

\* Lines 575 and 612: the text preserve_entities returned is stored in the
\* cache and passed to preserve_entities again on a later hit
PreserveEntitiesAgain ==
    /\ fn_call.fn = "preserve_entities"
    /\ fn_result.done
    /\ ~fn_result.again
    /\ \E r \in preserve_entities(fn_call.original_text, fn_result.value) :
         fn_result' = [done |-> TRUE, again |-> TRUE, value |-> fn_result.value,
                       second |-> r]
    /\ UNCHANGED <<fn_call, dynVars>>

NormalizeLanguageCodeCall ==
    /\ fn_call.fn = "normalize_language_code"
    /\ ~fn_result.done
    /\ fn_result' = Returned(normalize_language_code(fn_call.lang_code))
    /\ UNCHANGED <<fn_call, dynVars>>

TranslateCall ==
    /\ fn_call.fn = "translate"
    /\ ~fn_result.done
    /\ fn_result' = Returned(Translate(fn_call.provider_name, fn_call.api_key,
                                       fn_call.http))
    /\ UNCHANGED <<fn_call, dynVars>>

PureNext ==
    \/ PreserveEntitiesCall
    \/ PreserveEntitiesAgain
    \/ NormalizeLanguageCodeCall
    \/ TranslateCall

SpecPure == PureInit /\ [][PureNext]_vars

\* ------------------------------------------------------------ properties
\* the slot took a step
Moved(s) == task'[s] # task[s]

\* slots whose submitted task owns the registry entry of key k
Owners(t, k) == {s \in Slots : t[s].pc \in WorkerPcs /\ t[s].cache_key = k}

\* C1: for every cache key at most one submitted task exists at a time, so at
\* most one provider call per key is outstanding; a call dropped because its
\* key is in flight returns without an error, without a provider call and
\* without touching the cache or the registry.
C1_OneOutstandingCallPerKey ==
    [][ /\ \A s1, s2 \in Slots :
             (/\ task'[s1].pc \in WorkerPcs
              /\ task'[s2].pc \in WorkerPcs
              /\ task'[s1].cache_key = task'[s2].cache_key) => s1 = s2
        /\ \A s \in Slots :
             (Moved(s) /\ task'[s].outcome = "in_flight") =>
                 /\ Owners(task, task'[s].cache_key) # {}
                 /\ task'[s].pc = "idle"
                 /\ task'[s].provider_calls = 0
                 /\ task'[s].cache_writes = 0
                 /\ task'[s].stored = <<>>
                 /\ UNCHANGED <<cacheVars, _request_cache>>
      ]_vars

\* a provider call is outstanding for a key and a call with another message
\* id and the same key was dropped
C1_Witness ==
    \E s1, s2 \in Slots :
        /\ task[s1].pc = "w_call"
        /\ task[s2].outcome = "in_flight"
        /\ task[s2].cache_key = task[s1].cache_key
        /\ task[s2].message_key # task[s1].message_key

C3_SecondCallServedFromCache ==
    [][ \A s \in Slots :
          (/\ task[s].pc = "w_queued"
           /\ Moved(s)
           /\ is_message_visible(task[s].message_key)
           /\ \E t \in Slots \ {s} :
                 /\ task[t].pc = "idle"
                 /\ task[t].outcome = "stored"
                 /\ task[t].original_text = task[s].original_text
                 /\ task[t].target_lang_code = task[s].target_lang_code) =>
              /\ task'[s].outcome = "hit"
              /\ task'[s].provider_calls = 0
              /\ task[s].cache_key \in DOMAIN heap'[_translation_cache']
              /\ task'[s].stored =
                    <<heap'[_translation_cache'][task[s].cache_key]>>
      ]_vars

\* C4: a call for a message that is not visible at the time of the call ends
\* at once and changes neither the in-progress set, the registry, the cache,
\* the connectivity state nor any task: nothing is submitted, looked up or
\* requested from a provider.
C4_VisibilityGate ==
    [][ \A s \in Slots :
          (/\ task[s].pc = "idle"
           /\ Moved(s)
           /\ task'[s].message_key # NoMsg
           /\ ~is_message_visible(task'[s].message_key)) =>
              /\ task'[s].pc = "idle"
              /\ task'[s].provider_calls = 0
              /\ task'[s].cache_data = NoObj
              /\ UNCHANGED <<regVars, cacheVars, netVars, loadLog>>
              /\ \A t \in Slots \ {s} : task'[t] = task[t]
      ]_vars

\* a call was turned away at the gate while a task submitted earlier waits
C4_Witness ==
    \E s, t \in Slots :
        /\ task[s].pc = "idle"
        /\ task[s].outcome = "not_visible"
        /\ task[s].message_key \notin _visible_message_ids
        /\ task[t].pc = "w_queued"

\* is_online() returns False to slot s in this step
OfflineVerdict(s) ==
    \/ /\ task[s].pc = "w_online"
       /\ now - _last_offline_check < OnlineTtl
       /\ _offline_state
       /\ Moved(s)
    \/ /\ task[s].pc = "w_probe"
       /\ Moved(s)
       /\ _offline_state'

\* is_online() returns True to slot s in this step
OnlineVerdict(s) ==
    \/ /\ task[s].pc = "w_online"
       /\ now - _last_offline_check < OnlineTtl
       /\ ~_offline_state
       /\ Moved(s)
    \/ /\ task[s].pc = "w_probe"
       /\ Moved(s)
       /\ ~_offline_state'

\* C5: a task that missed the cache and is told offline calls no provider,
\* writes nothing to the cache, stores nothing, releases the message id at
\* once and ends without an error with its registry entry released.
C5_OfflineShortCircuit ==
    [][ \A s \in Slots :
          /\ OfflineVerdict(s) =>
                 /\ task'[s].pc = "w_finally"
                 /\ task'[s].outcome = "offline"
                 /\ task'[s].provider_calls = 0
                 /\ task'[s].cache_writes = 0
                 /\ task'[s].stored = <<>>
                 /\ task[s].message_key \notin in_progress_messages'
                 /\ heap'[_translation_cache'] = heap[_translation_cache]
                 /\ UNCHANGED file
          /\ (task[s].outcome = "offline" /\ Moved(s)) =>
                 /\ task'[s].pc \in {"w_pop", "idle"}
                 /\ task'[s].provider_calls = 0
                 /\ task'[s].cache_writes = 0
                 /\ task'[s].stored = <<>>
                 /\ heap'[_translation_cache'] = heap[_translation_cache]
                 /\ UNCHANGED file
                 /\ task'[s].pc = "idle" =>
                       /\ task'[s] = IdleTask
                       /\ task[s].cache_key \notin DOMAIN _request_cache'
      ]_vars

\* a task that was told offline has released the message id and is about to
\* release its registry entry
C5_Witness ==
    \E s \in Slots :
        /\ task[s].pc = "w_pop"
        /\ task[s].outcome = "offline"
        /\ task[s].message_key \notin in_progress_messages
        /\ task[s].cache_key \in DOMAIN _request_cache

\* C6: a task that missed the cache and is told online calls a provider,
\* for every value of the provider setting, and calls it once; when the
\* provider returns a text the task writes the entity-preserved text under
\* its key into the mapping load_cache() returned, then hands that same text
\* to the native storage, once.
C6_WriteThenStore ==
    [][ \A s \in Slots :
          /\ OnlineVerdict(s) =>
                 /\ task'[s].pc = "w_call"
                 /\ task'[s].provider_calls = 1
          /\ task'[s].pc = "w_call" =>
                 /\ task'[s].provider_calls = 1
                 /\ task'[s].cache_writes = 0
                 /\ task'[s].stored = <<>>
          /\ (task[s].pc = "w_put" /\ Moved(s)) => task'[s].pc = "w_save"
          /\ task'[s].pc \in {"w_save", "w_write"} =>
                 /\ task'[s].provider_calls = 1
                 /\ task'[s].cache_writes = 1
                 /\ task'[s].stored = <<>>
                 /\ task'[s].cache_key \in DOMAIN heap'[task'[s].cache_data]
                 /\ heap'[task'[s].cache_data][task'[s].cache_key] =
                       task'[s].translated_text
                 /\ \E r \in ProviderResults :
                       task'[s].translated_text \in
                           preserve_entities(task'[s].original_text, r)
          /\ (task[s].pc \in {"w_save", "w_write"} /\ task'[s].pc # task[s].pc) =>
                 \/ task[s].pc = "w_save" /\ task'[s].pc = "w_write"
                 \/ /\ task'[s].pc = "w_finally"
                    /\ task'[s].outcome = "stored"
                    /\ task'[s].provider_calls = 1
                    /\ task'[s].cache_writes = 1
                    /\ task'[s].stored = <<task[s].translated_text>>
          /\ (task[s].outcome = "stored" /\ task'[s].pc # "idle") =>
                 task'[s].stored = task[s].stored
      ]_vars

\* a task has written its entry and stored the text
C6_Witness ==
    \E s \in Slots :
        /\ task[s].pc = "w_finally"
        /\ task[s].outcome = "stored"
        /\ task[s].cache_writes = 1
        /\ Len(task[s].stored) = 1

\* C7: with sequential calls, every save_cache() call sets the dirty flag, and
\* it begins a write of the file exactly when at least 60 s have passed since
\* the last write began (or none began yet); a call inside the interval
\* leaves the file alone.
C7_DebouncedSave ==
    [][ \A s \in Slots :
          /\ (task[s].pc = "w_save" /\ Moved(s)) =>
                 /\ _cache_dirty'
                 /\ (task'[s].pc = "w_write") <=>
                       (lastWrite = 0 \/ now - lastWrite >= _cache_save_interval)
                 /\ task'[s].pc # "w_write" =>
                       /\ task'[s].pc = "w_finally"
                       /\ UNCHANGED <<file, lastWrite>>
          /\ (task[s].pc = "w_write" /\ Moved(s)) => lastWrite' = now
          /\ lastWrite' # lastWrite => task[s].pc = "w_write" \/ ~Moved(s)
      ]_vars

\* a first save wrote the file; a second one inside the interval did not, so
\* the mapping holds two entries and the file one
C7_Witness ==
    /\ lastWrite = now
    /\ saveQuiet = now
    /\ _cache_dirty
    /\ file.kind = "json"
    /\ Cardinality(DOMAIN file.data) = 1
    /\ Cardinality(DOMAIN heap[_translation_cache]) = 2
    /\ \E s \in Slots : task[s].pc = "w_finally" /\ task[s].outcome = "stored"

AllIdle == \A s \in Slots : task[s].pc = "idle"

\* C8: once save_cache() has returned and no call was made for a debounce
\* interval since, the file holds the in-memory mapping; stated for the
\* processes in which no write of the file failed and load_cache() created
\* the mapping once.
C8_EventualPersistence ==
    (/\ AllIdle
     /\ saveQuiet # 0
     /\ now - saveQuiet >= _cache_save_interval
     /\ file.kind = "json"
     /\ loadLog.slow <= 1) =>
        file.data = heap[_translation_cache]

\* C9: load_cache() takes its slow path (file lookup, new mapping object) at
\* most once in the life of the process, and no call but the first opens the
\* file.
C9_LoadOnce == loadLog.slow <= 1 /\ ~loadLog.reread

\* C10: an is_online() call made less than 10 s after a probe began returns
\* the verdict of that probe, and no probe begins inside the window of another.
C10_MemoizedVerdict ==
    [][ \A s \in Slots :
          /\ (/\ task[s].pc = "w_online"
              /\ Moved(s)
              /\ now - _last_offline_check < OnlineTtl) =>
                 /\ lastProbe # "pending"
                 /\ (lastProbe = "offline") <=> _offline_state
          /\ (task[s].pc = "w_stamp" /\ Moved(s)) =>
                 now - _last_offline_check >= OnlineTtl
      ]_vars

\* the call of fn under examination has returned
Done(fn) == fn_call.fn = fn /\ fn_result.done

\* code points of the text s
CodePoints(s) == {s[i] : i \in 1..Len(s)}

\* C11: every URL of the original text that does not occur in the translated
\* text occurs in the result of preserve_entities, which is the translated
\* text with the missing URLs appended.
C11_MissingUrlsAppended ==
    Done("preserve_entities") =>
        LET t == fn_call.translated_text
            r == fn_result.value
            urls == FindUrls(fn_call.original_text, 1)
        IN  \A k \in 1..Len(urls) :
                ~IsSubstring(urls[k], t) =>
                    /\ Take(r, Len(t)) = t
                    /\ IsSubstring(urls[k], SubSeq(r, Len(t) + 1, Len(r)))

\* C12: every emoji code point of the original text occurs in the result of
\* preserve_entities; the result is the translated text with text appended,
\* and the emoji code points the translated text lacks are in the appended
\* part.
C12_EmojiPreserved ==
    Done("preserve_entities") =>
        LET o == fn_call.original_text
            t == fn_call.translated_text
            r == fn_result.value
            appended == SubSeq(r, Len(t) + 1, Len(r))
        IN  /\ Take(r, Len(t)) = t
            /\ (CodePoints(o) \cap EmojiRange) \subseteq CodePoints(r)
            /\ ((CodePoints(o) \cap EmojiRange) \ CodePoints(t))
                   \subseteq CodePoints(appended)

\* the translation changed the emoji of "E1 ok" and the original's was appended
C12_Witness ==
    /\ Done("preserve_entities")
    /\ fn_call.original_text = TEmoji
    /\ fn_call.translated_text = <<"x", "E2">>
    /\ fn_result.value = <<"x", "E2", "E1">>

\* C13: normalize_language_code returns "en" for None and for the empty
\* string, "zh" for "zh_CN", "no" for "nb" with or without a region suffix;
\* what it returns for a code has no region suffix and is never "nb".
C13_LanguageNormalization ==
    Done("normalize_language_code") =>
        LET l == fn_call.lang_code
            r == fn_result.value
        IN  /\ l \in {NoText, <<>>} => r = <<"e", "n">>
            /\ l = <<"z","h","_","C","N">> => r = <<"z", "h">>
            /\ l \in {<<"n","b">>, <<"n","b","_","N","O">>} => r = <<"n", "o">>
            /\ UnderscorePos(r, 1) = 0
            /\ r # <<"n", "b">>

\* "nb_NO" was normalized
C13_Witness ==
    /\ Done("normalize_language_code")
    /\ fn_call.lang_code = <<"n","b","_","N","O">>
    /\ fn_result.value = <<"n", "o">>

\* the exchange failed, was rate limited, or the response is malformed
Failed(http) ==
    \/ http.kind \in {"timeout", "connection_error"}
    \/ http.status = 429
    \/ http.body \in {"not_json", "empty_list", "empty_dict"}

\* C15: the strategy of every provider returns to its caller without raising
\* and after at most one outbound request; on a timeout, a connection error,
\* status 429 or a malformed response it returns no result.
C15_StrategiesNeverRaise ==
    Done("translate") =>
        LET r == fn_result.value
        IN  /\ ~r.raised
            /\ r.requests <= 1
            /\ Failed(fn_call.http) => r.ret = NoResult

\* the request of a strategy timed out and the strategy returned no result
C15_Witness ==
    /\ Done("translate")
    /\ fn_call.http.kind = "timeout"
    /\ fn_call.api_key = <<"k">>
    /\ fn_result.value = Return(NoResult, 1)

\* texts of fewer than 3 code points, and the codes of the target languages
ShortTexts == {<<>>, <<"h">>, TShort, <<"E1">>, <<"c", "y">>}
TargetLangs ==
    {normalize_language_code(l) : l \in LangCodes \cup RawLangs}
        \cup {<<"r","u">>, <<"j","a">>}

\* C14: a text of fewer than 3 code points is already translated for every
\* target language, and a call for it ends at the heuristic with its message
\* id out of the in-progress set, the registry as it was and no task
\* submitted.
C14_ShortTextAborts ==
    [][ \A s \in Slots :
          (/\ task[s].pc = "c_lang"
           /\ Len(task[s].original_text) < MinTextLen
           /\ Moved(s)) =>
              /\ \A t \in ShortTexts \cup {task[s].original_text},
                    l \in TargetLangs : is_already_translated(t, l)
              /\ task'[s].pc = "idle"
              /\ task'[s].outcome = "already"
              /\ task[s].message_key \notin in_progress_messages'
              /\ UNCHANGED _request_cache
              /\ \A t \in Slots \ {s} : task'[t] = task[t]
      ]_vars

\* a call for a short text ended at the heuristic while a task is running
C14_Witness ==
    \E s, t \in Slots :
        /\ task[s].pc = "idle"
        /\ task[s].outcome = "already"
        /\ task[t].pc = "w_call"
        /\ in_progress_messages = {task[t].message_key}

\* C16: the steps of replace_hooked_method on the calling thread read and
\* write neither the cache nor its file, begin no probe and call no provider;
\* the call ends by returning or by submitting its task, whatever the tasks
\* of the pool are doing, and the steps of the task are not the call's.
C16_CallerDoesNoIo ==
    [][ \A s \in Slots :
          (task[s].pc \in CallerPcs \cup {"idle"} /\ Moved(s)) =>
              /\ UNCHANGED <<cacheVars, netVars, loadLog, lastWrite>>
              /\ task'[s].pc \in CallerPcs \cup {"idle", "w_queued"}
              /\ task'[s].provider_calls = 0
              /\ task'[s].cache_data = NoObj
              /\ \A t \in Slots \ {s} : task'[t] = task[t]
      ]_vars

\* a call has submitted its task and returned while the provider call of
\* another task is outstanding
C16_Witness ==
    \E s, t \in Slots :
        /\ task[s].pc = "w_queued"
        /\ task[t].pc = "w_call"
        /\ task[s].cache_key # task[t].cache_key
        /\ task[s].cache_key \in DOMAIN _request_cache

\* C17: when the clear-cache action has removed the cache file the mapping in
\* memory is empty, so that the entry count is 0, every later request misses
\* the cache and no later save writes an entry of before back.
C17_ClearEmptiesStore ==
    [][ (file.kind # "missing" /\ file'.kind = "missing") =>
            heap'[_translation_cache'] = EmptyDict
      ]_vars

\* C18: a call whose cache key is PENDING is dropped: it becomes no task,
\* leaves the registry alone, has its message id out of the in-progress set
\* and has stored nothing; a task is submitted only for a key that was not
\* PENDING, and only the one task that owns a PENDING key stores a text.
C18_PendingKeyDropsRequest ==
    [][ \A s \in Slots :
          /\ (task[s].pc = "c_lang" /\ Moved(s)) =>
                 \/ /\ task'[s].pc = "w_queued"
                    /\ task'[s].cache_key \notin DOMAIN _request_cache
                    /\ task'[s].cache_key \in DOMAIN _request_cache'
                 \/ /\ task'[s].pc = "idle"
                    /\ task'[s].stored = <<>>
                    /\ task[s].message_key \notin in_progress_messages'
                    /\ UNCHANGED _request_cache
                    /\ task'[s].outcome = "in_flight" =>
                          task'[s].cache_key \in DOMAIN _request_cache
          /\ task'[s].stored # task[s].stored =>
                 \/ task'[s].stored = <<>>
                 \/ /\ task[s].pc \in WorkerPcs
                    /\ task[s].cache_key \in DOMAIN _request_cache
                    /\ Owners(task, task[s].cache_key) = {s}
      ]_vars

\* the request of another message with the same key was dropped, and the task
\* that owns the key has stored its text
C18_Witness ==
    \E s, t \in Slots :
        /\ task[s].pc = "idle"
        /\ task[s].outcome = "in_flight"
        /\ task[t].pc = "w_finally"
        /\ task[t].outcome = "stored"
        /\ task[t].cache_key = task[s].cache_key
        /\ task[t].message_key # task[s].message_key
        /\ task[s].message_key \notin in_progress_messages

\* C19: the duplicate check and the insert of a message id are one atomic
\* step: no call passes the check for an id while another call has passed
\* the check for that id and has not inserted it yet.
C19_AtomicCheckAndInsert ==
    [][ \A s \in Slots :
          (task[s].pc = "c_check" /\ task'[s].pc = "c_add") =>
              ~\E t \in Slots \ {s} :
                  /\ task[t].pc = "c_add"
                  /\ task[t].message_key = task[s].message_key
      ]_vars

\* C20: no exception escapes replace_hooked_method or the worker task, and a
\* task in which an exception was raised stores nothing.
C20_NoExceptionEscapes ==
    \A s \in Slots :
        /\ task[s].outcome # "escaped"
        /\ task[s].outcome = "raised" => task[s].stored = <<>>

\* C22: no two writes of the cache file begin less than the debounce
\* interval apart, whatever the interleaving of the save_cache() calls of
\* concurrent tasks.
C22_OneWritePerInterval ==
    [][ \A s \in Slots :
          (task[s].pc = "w_write" /\ Moved(s)) =>
              (lastWrite = 0 \/ now - lastWrite >= _cache_save_interval)
      ]_vars

\* C23: a write of the cache file leaves in the file the snapshot that was
\* there or the whole mapping being saved, never anything else.
C23_AtomicReplace ==
    [][ \A s \in Slots :
          (task[s].pc = "w_write" /\ Moved(s)) =>
              \/ file' = file
              \/ file' = Json(heap[task[s].cache_data])
      ]_vars

\* C25: a task that finds its message invisible when it starts loads no
\* cache, begins no probe, calls no provider and stores nothing; it releases
\* the message id at once and its cache key when it ends.
C25_InvisibleTaskShortCircuits ==
    [][ \A s \in Slots :
          /\ (/\ task[s].pc = "w_queued"
              /\ Moved(s)
              /\ ~is_message_visible(task[s].message_key)) =>
                 /\ task'[s].pc = "w_finally"
                 /\ task'[s].outcome = "invisible"
                 /\ task'[s].provider_calls = 0
                 /\ task'[s].stored = <<>>
                 /\ task[s].message_key \notin in_progress_messages'
                 /\ UNCHANGED <<cacheVars, netVars, loadLog, lastWrite>>
          /\ (task[s].outcome = "invisible" /\ Moved(s)) =>
                 /\ task'[s].pc \in {"w_pop", "idle"}
                 /\ task'[s].provider_calls = 0
                 /\ task'[s].stored = <<>>
                 /\ UNCHANGED <<cacheVars, netVars, loadLog, lastWrite>>
                 /\ task[s].pc = "w_finally" =>
                       task[s].message_key \notin in_progress_messages'
                 /\ task'[s].pc = "idle" =>
                       task[s].cache_key \notin DOMAIN _request_cache'
      ]_vars

\* a task found its message invisible, has released the message id and is
\* about to release its cache key, with nothing loaded so far
C25_Witness ==
    \E s \in Slots :
        /\ task[s].pc = "w_pop"
        /\ task[s].outcome = "invisible"
        /\ task[s].message_key \notin in_progress_messages
        /\ task[s].cache_key \in DOMAIN _request_cache
        /\ loadLog.slow = 0

\* a key for which the cache file shows that a task of this process wrote it
\* into the cache: no file of before the process holds it
WrittenByTask(k) ==
    /\ file.kind = "json"
    /\ k \in DOMAIN file.data
    /\ k \notin DOMAIN OldSnapshot

\* C26: the lookup of a key that a task of this process wrote into the cache
\* is a hit.
C26_NoEntryLost ==
    [][ \A s \in Slots :
          (/\ task[s].pc = "w_queued"
           /\ Moved(s)
           /\ is_message_visible(task[s].message_key)
           /\ WrittenByTask(task[s].cache_key)) =>
              task'[s].outcome = "hit"
      ]_vars

\* C27: preserve_entities applied to its own result returns that result.
C27_PreserveIdempotent ==
    (Done("preserve_entities") /\ fn_result.again) =>
        fn_result.second = fn_result.value

\* C21: whenever no call is executing and no task is queued or running, the
\* in-progress set and the registry of keys in flight are empty.
C21_BookkeepingReleased ==
    AllIdle => (in_progress_messages = {} /\ _request_cache = EmptyDict)

\* C24: a task whose provider returned no result calls no provider again,
\* writes nothing into the cache or its file and stores nothing; it releases
\* the message id at once and the cache key when it ends, and the same
\* request issued afterwards passes the in-progress check, is submitted and
\* calls the provider.
C24_NoResultLeavesNoTrace ==
    [][ \A s \in Slots :
          /\ (task[s].pc = "w_call" /\ Moved(s)) =>
                 /\ task'[s].pc \in {"w_put", "w_finally"}
                 /\ task'[s].provider_calls = 1
          /\ (task'[s].outcome = "no_result" /\ Moved(s)) =>
                 /\ task'[s].cache_writes = 0
                 /\ task'[s].stored = <<>>
                 /\ file' = file
                 /\ _translation_cache' = _translation_cache
                 /\ heap'[_translation_cache] = heap[_translation_cache]
                 /\ task[s].pc \in {"w_call", "w_finally"} =>
                       task[s].message_key \notin in_progress_messages'
                 /\ task[s].pc = "w_pop" =>
                       /\ task'[s].pc = "idle"
                       /\ task[s].cache_key \notin DOMAIN _request_cache'
          /\ (\E t \in Slots \ {s} :
                 /\ task[t].pc = "idle"
                 /\ task[t].outcome = "no_result"
                 /\ task[t].message_key = task[s].message_key
                 /\ task[t].original_text = task[s].original_text) =>
                 /\ (task[s].pc = "c_check" /\ Moved(s)) => task'[s].pc = "c_add"
                 /\ (task[s].pc = "c_lang" /\ Moved(s)) => task'[s].pc = "w_queued"
      ]_vars

\* a task ended after its provider returned no result, and the task of the
\* same request issued again is in its provider call
C24_Witness ==
    \E s, t \in Slots :
        /\ task[t].pc = "idle"
        /\ task[t].outcome = "no_result"
        /\ task[s].pc = "w_call"
        /\ task[s].provider_calls = 1
        /\ task[s].message_key = task[t].message_key
        /\ task[s].original_text = task[t].original_text
        /\ task[s].target_lang_code = task[t].target_lang_code

=============================================================================
